---- MODULE Spec2Model ----
(***************************************************************************)
(* Hours-of-Service trip planner (trips/hos_engine.py).                    *)
(*                                                                         *)
(* calculate_trip walks the route legs in order; for each leg              *)
(* _plan_driving_segment emits drive / break / rest / fuel segments while  *)
(* it mutates the HOSState ledger, then _check_and_add_rest_if_needed may  *)
(* add a rest and the leg's pickup or dropoff hour is emitted.             *)
(*                                                                         *)
(* Numbers.  The code computes in floats; the model computes the same      *)
(* expressions exactly on a grid.  Distances are counted in ticks of       *)
(* 1/TicksPerMile mile and durations in ticks of 1/TicksPerHour hour, with *)
(* TicksPerHour = AVG_SPEED_MPH * TicksPerMile, so that every product and  *)
(* quotient by AVG_SPEED_MPH the code forms is exact.  Floating-point      *)
(* rounding of the ledger is not modelled.                                 *)
(*                                                                         *)
(* Clock.  The ledger holds float hours, but segment times are datetimes:  *)
(* timedelta(hours=h) rounds h to the resolution of the clock (half to     *)
(* even).  The model keeps the two resolutions apart on a smaller scale:   *)
(* the clock quantum is Grain ticks, so instants are multiples of Grain    *)
(* ticks since midnight of the day the trip starts, while ledger hours and *)
(* miles may be any number of ticks.                                       *)
(*                                                                         *)
(* generate_eld_logs (trips/eld_generator.py) projects the returned        *)
(* segment list onto calendar days; its roundings to 4, 2 and 1 decimals   *)
(* are computed as roundings.                                              *)
(***************************************************************************)
EXTENDS Integers, Sequences, FiniteSets, TLC

(***************************************************************************)
(* Grid and bounds of the model                                            *)
(***************************************************************************)
Grain == 10

MaxLegs == 2

MultiStopLegs == 4

ManyStopLegs == 7

TicksPerMile == 2 * Grain

AVG_SPEED_MPH == 55

TicksPerHour == AVG_SPEED_MPH * TicksPerMile

Miles(n) == n * TicksPerMile

Hours(n) == n * TicksPerHour

HalfHour == TicksPerHour \div 2

(***************************************************************************)
(* Constants of hos_engine.py, in ticks                                    *)
(***************************************************************************)
MAX_DRIVING_HOURS == Hours(11)

MAX_WINDOW_HOURS == Hours(14)

BreakAfterElevenHours == Hours(11)

BREAK_AFTER_HOURS == Hours(8)

BREAK_DURATION_HOURS == HalfHour

REST_DURATION_HOURS == Hours(10)

CYCLE_RESTART_HOURS == Hours(34)

MAX_CYCLE_HOURS == Hours(70)

FuelIntervalShort == Miles(500)

FUEL_INTERVAL_MILES == Miles(1000)

FuelStopFullHour == Hours(1)

FUEL_STOP_DURATION_HOURS == HalfHour

PICKUP_DURATION_HOURS == Hours(1)

DROPOFF_DURATION_HOURS == Hours(1)

\* the literal 100 of `abs(miles_since_fuel - FUEL_INTERVAL_MILES) < 100`
CombineWindowMiles == Miles(100)

\* DutyStatus
OFF_DUTY == "off_duty"

DRIVING == "driving"

OnDutyLoggedOffDuty == "off_duty"

ON_DUTY == "on_duty_not_driving"

\* reason strings
ReasonDriving == "Driving"

ReasonBreak == "Required 30-minute break (8hr driving limit)"

ReasonRestDrive == "Required 10-hour rest (driving/window limit)"

ReasonRestWork == "Required 10-hour rest"

ReasonRestart == "Required 34-hour restart (70hr cycle limit)"

ReasonFuel == "Fuel stop"

ReasonFuelBreak == "Fuel stop + 30-minute break"

ReasonPickup == "Pickup - Loading"

ReasonDropoff == "Dropoff - Unloading"

(***************************************************************************)
(* Arithmetic helpers                                                      *)
(***************************************************************************)
Min(a, b) == IF a <= b THEN a ELSE b

Max(a, b) == IF a >= b THEN a ELSE b

Abs(a) == IF a >= 0 THEN a ELSE 0 - a

Last(s) == s[Len(s)]

\* the list without its last element
Front(s) == SubSeq(s, 1, Len(s) - 1)

\* hours * AVG_SPEED_MPH : duration ticks -> distance ticks
MilesIn(hours) == (hours * AVG_SPEED_MPH * TicksPerMile) \div TicksPerHour

\* miles / AVG_SPEED_MPH : distance ticks -> duration ticks
HoursFor(miles) == (miles * TicksPerHour) \div (AVG_SPEED_MPH * TicksPerMile)

\* miles > 0.1
MoreThanTenthMile(miles) == 10 * miles > TicksPerMile

(***************************************************************************)
(* TripSegment                                                             *)
(***************************************************************************)
\* num / den rounded to the nearest integer, half to even
RoundHalfEven(num, den) ==
    LET q == num \div den
        r == num % den
    IN  IF 2 * r < den \/ (2 * r = den /\ q % 2 = 0) THEN q ELSE q + 1

\* timedelta(hours=h): h rounded to the clock quantum
timedelta(hours) == Grain * RoundHalfEven(hours, Grain)

TripSegment(type, duty, t0, hours, from, to, miles, why) ==
    [segment_type |-> type, duty_status |-> duty, start_time |-> t0,
     end_time |-> t0 + timedelta(hours), start_location |-> from,
     end_location |-> to, distance_miles |-> miles, reason |-> why]

(***************************************************************************)
(* HOSState                                                                *)
(***************************************************************************)
HOSState(cycle) ==
    [driving_hours |-> 0, window_hours |-> 0, hours_since_break |-> 0,
     cycle_hours |-> cycle, on_duty |-> FALSE]

remaining_driving_ignoring_cycle(s) ==
    Max(0, Min(MAX_DRIVING_HOURS - s.driving_hours,
               Min(MAX_WINDOW_HOURS - s.window_hours,
                   BREAK_AFTER_HOURS - s.hours_since_break)))

remaining_driving(s) ==
    Max(0, Min(Min(MAX_DRIVING_HOURS - s.driving_hours,
                   MAX_WINDOW_HOURS - s.window_hours),
               Min(BREAK_AFTER_HOURS - s.hours_since_break,
                   MAX_CYCLE_HOURS - s.cycle_hours)))

remaining_before_break(s) == Max(0, BREAK_AFTER_HOURS - s.hours_since_break)

needs_break(s) == s.hours_since_break >= BREAK_AFTER_HOURS

needs_rest(s) ==
    \/ s.driving_hours >= MAX_DRIVING_HOURS
    \/ s.window_hours >= MAX_WINDOW_HOURS

needs_cycle_reset_strict(s) == s.cycle_hours > MAX_CYCLE_HOURS

needs_cycle_reset(s) == s.cycle_hours >= MAX_CYCLE_HOURS

add_driving(s, hours) ==
    [s EXCEPT !.driving_hours = @ + hours, !.window_hours = @ + hours,
              !.hours_since_break = @ + hours, !.cycle_hours = @ + hours,
              !.on_duty = TRUE]

add_on_duty_as_driving(s, hours) == add_driving(s, hours)

add_on_duty(s, hours) ==
    [s EXCEPT !.window_hours = @ + hours, !.cycle_hours = @ + hours,
              !.on_duty = TRUE]

take_break(s) == [s EXCEPT !.hours_since_break = 0]

take_rest_keeping_break(s) ==
    [s EXCEPT !.driving_hours = 0, !.window_hours = 0, !.on_duty = FALSE]

take_rest_as_break(s) == [s EXCEPT !.hours_since_break = 0]

take_rest(s) ==
    [s EXCEPT !.driving_hours = 0, !.window_hours = 0,
              !.hours_since_break = 0, !.on_duty = FALSE]

take_rest_keeping_cycle(s) == take_rest(s)

\* state.take_rest(); state.cycle_hours = 0.0
take_cycle_restart(s) == [take_rest(s) EXCEPT !.cycle_hours = 0]

(***************************************************************************)
(* Locations.  Coordinates are counted in units of 0.000001 degree, the    *)
(* resolution interpolate_location rounds to.                              *)
(***************************************************************************)
\* spacing of the places of a route, in units of 0.000001 degree
LatStep == 30000

LngStep == 40000

\* the k-th place of the route: the trip starts at place 0 and leg i runs
\* from place i - 1 to place i
Place(k) == [lat |-> 40000000 + k * LatStep, lng |-> k * LngStep - 100000000,
             name |-> "place"]

\* leg["start_location"], leg["end_location"]
start_loc(i) == Place(i - 1)

end_loc(i) == Place(i)

\* interpolate_location(start_loc, end_loc, fraction) at the fraction
\* done / total of the way
interpolate_location(from, to, done, total) ==
    [lat |-> from.lat + RoundHalfEven((to.lat - from.lat) * done, total),
     lng |-> from.lng + RoundHalfEven((to.lng - from.lng) * done, total),
     name |-> ""]

(***************************************************************************)
(* Inputs of calculate_trip                                                *)
(***************************************************************************)
LegTypes == {"drive_to_pickup", "drive_to_dropoff"}

\* 0 mi, one tick (below the 0.1 mi loop threshold), 55 mi, 605 mi, 1200 mi
Distances == {0, 1, Miles(55), Miles(605), Miles(1200)}

\* current_cycle_used: 0 h, 51.5 h, 69 h, one tick short of 70 h, 70 h
CycleChoices == {0, 103 * HalfHour, Hours(69), Hours(70) - 1, Hours(70)}

\* start_time: 06:00 and 20:00
StartTimes == {Hours(6), Hours(20)}

RouteLeg == [distance_miles : Distances, leg_type : LegTypes]

\* any ordered list of up to MaxLegs legs, the empty list included
GeneralRoutes == UNION {[1..n -> RouteLeg] : n \in 0..MaxLegs}

\* single hauls that end at, one tick past, or well past a multiple of 1000
\* miles
LongHauls == {Miles(1000), Miles(1000) + 1, Miles(2000), Miles(2300)}

LongHaulRoutes ==
    {<<[distance_miles |-> d, leg_type |-> t]>> : d \in LongHauls, t \in LegTypes}

\* longer delivery rounds: pickups and dropoffs alternate
MultiStopRoutes ==
    {r \in UNION {[1..n -> RouteLeg] : n \in (MaxLegs + 1)..MultiStopLegs} :
        \A i \in DOMAIN r :
            r[i].leg_type = IF i % 2 = 1 THEN "drive_to_pickup"
                                         ELSE "drive_to_dropoff"}

LegTypeAt(i) == IF i % 2 = 1 THEN "drive_to_pickup" ELSE "drive_to_dropoff"

\* local delivery rounds: pickups and dropoffs alternate over hops of 0 or
\* 55 miles, then a haul of any length
ManyStopRoutes ==
    UNION {
        {[i \in 1..n |->
            [distance_miles |-> IF i < n THEN hops[i] ELSE haul,
             leg_type |-> LegTypeAt(i)]] :
                hops \in [1..(n - 1) -> {0, Miles(55)}], haul \in Distances} :
        n \in (MultiStopLegs + 1)..ManyStopLegs}

\* trips that begin or end within one clock quantum of midnight, and a trip
\* of exactly 30 hours: 164.5 mi; 605 mi then 357.5 mi
ClockEdgeRoutes ==
    {<<[distance_miles |-> Miles(165) - Grain, leg_type |-> "drive_to_pickup"]>>,
     <<[distance_miles |-> Miles(605), leg_type |-> "drive_to_pickup"],
       [distance_miles |-> Miles(715) \div 2, leg_type |-> "drive_to_dropoff"]>>}

\* start_time: one clock quantum after midnight, and 20:00
ClockEdgeStarts == {Grain, Hours(20)}

\* trips on which the cycle runs out at the very moment another limit does:
\* current_cycle_used 59 h (with the 11th hour of driving) and 62 h (with the
\* 8th hour since the last break), on one 1200-mile leg
CycleEdgeRoutes ==
    {<<[distance_miles |-> Miles(1200), leg_type |-> "drive_to_pickup"]>>}

CycleEdgeChoices == {Hours(59), Hours(62)}

\* trip_start_date of generate_eld_logs: None (the empty tuple) or a date,
\* counted in days from the day of start_time
TripStartDates == {<<>>, <<0 - 1>>, <<0>>, <<1>>}

(***************************************************************************)
(* Inputs of plan_trip (trips/views.py)                                    *)
(***************************************************************************)
\* the three locations of a request, in the order they are resolved
LocationFields ==
    <<"current_location", "pickup_location", "dropoff_location">>

\* what geocode() meets: a result, an empty result list, an error status of
\* the geocoding backend, no connection to it
GeocodeOutcomes == {"found", "no_result", "http_error", "unreachable"}

\* distance_miles of get_route: 0 mi, 55 mi, 1200 mi
RouteDistances == {0, Miles(55), Miles(1200)}

\* current_cycle_used of a valid request: 0 h, 69 h, 70 h
RequestCycles == {0, Hours(69), Hours(70)}

\* route_legs as plan_trip builds it: to the pickup, then to the dropoff
RequestRoutes ==
    {<<[distance_miles |-> d1, leg_type |-> "drive_to_pickup"],
       [distance_miles |-> d2, leg_type |-> "drive_to_dropoff"]>> :
          d1 \in RouteDistances, d2 \in RouteDistances}

(***************************************************************************)
(* State                                                                   *)
(***************************************************************************)
VARIABLES
    route_legs,        \* calculate_trip argument
    current_cycle_used,\* calculate_trip argument
    start_time,        \* calculate_trip argument
    state,             \* the HOSState ledger
    segments,          \* calculate_trip's list
    current_time,      \* calculate_trip's current_time
    leg_index,         \* position of `for leg in route_legs` (1-based)
    pc,                \* control position
    error,             \* exception that ended calculate_trip, or "none"
    plan_segments,     \* _plan_driving_segment's list for the current leg
    miles_remaining,   \* _plan_driving_segment local
    miles_since_fuel,  \* _plan_driving_segment local
    plan_time,         \* _plan_driving_segment's current_time
    need_fuel,         \* _plan_driving_segment local, of the last iteration
    trip_start_date,   \* generate_eld_logs argument
    eld_logs,          \* generate_eld_logs result
    data,              \* plan_trip: serializer.validated_data
    geocoded,          \* plan_trip: how each location was resolved so far
    response,          \* plan_trip: HTTP status of the Response, 0 if none
    view_pc            \* plan_trip: control position

vars == <<route_legs, current_cycle_used, start_time, state, segments,
          current_time, leg_index, pc, error, plan_segments, miles_remaining,
          miles_since_fuel, plan_time, need_fuel, trip_start_date, eld_logs,
          data, geocoded, response, view_pc>>

eldVars == <<trip_start_date, eld_logs>>

viewVars == <<data, geocoded, response, view_pc>>

tripVars == <<route_legs, current_cycle_used, start_time>>

callerVars == <<segments, current_time, leg_index, error>>

leg == route_legs[leg_index]

\* every segment appended so far, in order of emission
Emitted ==
    IF pc \in {"plan_loop", "fuel_stop"} THEN segments \o plan_segments
                                         ELSE segments

Init ==
    /\ \/ /\ route_legs \in GeneralRoutes \cup LongHaulRoutes
          /\ current_cycle_used \in CycleChoices
          /\ start_time \in StartTimes
       \/ /\ route_legs \in MultiStopRoutes \cup ManyStopRoutes
          /\ current_cycle_used = 0
          /\ start_time = Hours(6)
       \/ /\ route_legs \in ClockEdgeRoutes
          /\ current_cycle_used = 0
          /\ start_time \in ClockEdgeStarts
       \/ /\ route_legs \in CycleEdgeRoutes
          /\ current_cycle_used \in CycleEdgeChoices
          /\ start_time = Hours(6)
    /\ state = HOSState(current_cycle_used)
    /\ segments = <<>>
    /\ current_time = start_time
    /\ leg_index = 1
    /\ pc = "next_leg"
    /\ error = "none"
    /\ plan_segments = <<>>
    /\ miles_remaining = 0
    /\ miles_since_fuel = 0
    /\ plan_time = start_time
    /\ need_fuel = FALSE
    /\ trip_start_date = <<>>
    /\ eld_logs = <<>>
    /\ data = [coords |-> {}, current_cycle_used |-> current_cycle_used]
    /\ geocoded = <<>>
    /\ response = 0
    /\ view_pc = "direct_call"

(***************************************************************************)
(* _plan_driving_segment                                                   *)
(***************************************************************************)
\* entry: the locals are initialised from the leg
StartLeg ==
    /\ pc = "next_leg"
    /\ leg_index <= Len(route_legs)
    /\ plan_segments' = <<>>
    /\ miles_remaining' = leg.distance_miles
    /\ plan_time' = current_time
    /\ miles_since_fuel' = 0
    /\ need_fuel' = FALSE
    /\ pc' = "plan_loop"
    /\ UNCHANGED <<tripVars, eldVars, viewVars, state, callerVars>>

InLoop == pc = "plan_loop" /\ MoreThanTenthMile(miles_remaining)

\* interpolate_location(start_loc, end_loc, 1 - remaining / total_miles)
loc_at(remaining) ==
    interpolate_location(start_loc(leg_index), end_loc(leg_index),
                         leg.distance_miles - remaining, leg.distance_miles)

\* drive_limit <= 0 and needs_cycle_reset
PlanCycleRestart ==
    /\ InLoop
    /\ remaining_driving(state) <= 0
    /\ needs_cycle_reset(state)
    /\ plan_segments' = Append(plan_segments,
           TripSegment("rest", OFF_DUTY, plan_time, CYCLE_RESTART_HOURS,
                       loc_at(miles_remaining), loc_at(miles_remaining), 0,
                       ReasonRestart))
    /\ state' = take_cycle_restart(state)
    /\ plan_time' = plan_time + timedelta(CYCLE_RESTART_HOURS)
    /\ UNCHANGED <<tripVars, eldVars, viewVars, callerVars, pc, miles_remaining,
                   miles_since_fuel, need_fuel>>

\* drive_limit <= 0, needs_break and not needs_rest
PlanBreak ==
    /\ InLoop
    /\ remaining_driving(state) <= 0
    /\ ~needs_cycle_reset(state)
    /\ needs_break(state) /\ ~needs_rest(state)
    /\ plan_segments' = Append(plan_segments,
           TripSegment("break", OFF_DUTY, plan_time, BREAK_DURATION_HOURS,
                       loc_at(miles_remaining), loc_at(miles_remaining), 0,
                       ReasonBreak))
    /\ state' = take_break(state)
    /\ plan_time' = plan_time + timedelta(BREAK_DURATION_HOURS)
    /\ UNCHANGED <<tripVars, eldVars, viewVars, callerVars, pc, miles_remaining,
                   miles_since_fuel, need_fuel>>

\* drive_limit <= 0, otherwise
PlanRest ==
    /\ InLoop
    /\ remaining_driving(state) <= 0
    /\ ~needs_cycle_reset(state)
    /\ ~(needs_break(state) /\ ~needs_rest(state))
    /\ plan_segments' = Append(plan_segments,
           TripSegment("rest", OFF_DUTY, plan_time, REST_DURATION_HOURS,
                       loc_at(miles_remaining), loc_at(miles_remaining), 0,
                       ReasonRestDrive))
    /\ state' = take_rest(state)
    /\ plan_time' = plan_time + timedelta(REST_DURATION_HOURS)
    /\ UNCHANGED <<tripVars, eldVars, viewVars, callerVars, pc, miles_remaining,
                   miles_since_fuel, need_fuel>>

miles_can_drive(s) == MilesIn(remaining_driving(s))

miles_to_fuel_whole_interval(since_fuel) == FUEL_INTERVAL_MILES

miles_to_fuel(since_fuel) ==
    IF FUEL_INTERVAL_MILES - since_fuel <= 0
        THEN FUEL_INTERVAL_MILES
        ELSE FUEL_INTERVAL_MILES - since_fuel

NeedFuel(s, remaining, since_fuel) ==
    /\ Min(remaining, miles_can_drive(s)) >= miles_to_fuel(since_fuel)
    /\ remaining > miles_to_fuel(since_fuel)

miles_this_segment_unclamped(s, remaining, since_fuel) ==
    IF NeedFuel(s, remaining, since_fuel)
        THEN miles_to_fuel(since_fuel)
        ELSE miles_can_drive(s)

miles_this_segment(s, remaining, since_fuel) ==
    IF NeedFuel(s, remaining, since_fuel)
        THEN miles_to_fuel(since_fuel)
        ELSE Min(remaining, miles_can_drive(s))

\* the branch `hours_this_segment > hours_to_break and hours_to_break > 0`
BreakBeforeSegmentEnd(s, remaining, since_fuel) ==
    /\ HoursFor(miles_this_segment(s, remaining, since_fuel))
           > remaining_before_break(s)
    /\ remaining_before_break(s) > 0

\* one loop iteration with drive_limit > 0
PlanDrive ==
    /\ InLoop
    /\ remaining_driving(state) > 0
    /\ LET nf == NeedFuel(state, miles_remaining, miles_since_fuel)
           miles == miles_this_segment(state, miles_remaining, miles_since_fuel)
           hours == HoursFor(miles)
           hours_to_break == remaining_before_break(state)
           miles_before_break == MilesIn(hours_to_break)
       IN  IF BreakBeforeSegmentEnd(state, miles_remaining, miles_since_fuel)
           THEN \* drive until the break is due, then break (or fuel + break)
                LET drove == MoreThanTenthMile(miles_before_break)
                    t1 == IF drove THEN plan_time + timedelta(hours_to_break)
                                   ELSE plan_time
                    since == IF drove THEN miles_since_fuel + miles_before_break
                                      ELSE miles_since_fuel
                    combine == nf /\ Abs(since - FUEL_INTERVAL_MILES)
                                         < CombineWindowMiles
                    left == IF drove THEN miles_remaining - miles_before_break
                                     ELSE miles_remaining
                    stop == IF combine
                              THEN TripSegment("fuel", OFF_DUTY, t1,
                                       BREAK_DURATION_HOURS, loc_at(left),
                                       loc_at(left), 0, ReasonFuelBreak)
                              ELSE TripSegment("break", OFF_DUTY, t1,
                                       BREAK_DURATION_HOURS, loc_at(left),
                                       loc_at(left), 0, ReasonBreak)
                IN  /\ plan_segments' =
                          (IF drove
                             THEN Append(plan_segments,
                                      TripSegment("drive", DRIVING, plan_time,
                                          hours_to_break,
                                          loc_at(miles_remaining), loc_at(left),
                                          miles_before_break, ReasonDriving))
                             ELSE plan_segments) \o <<stop>>
                    /\ state' = take_break(IF drove
                                             THEN add_driving(state, hours_to_break)
                                             ELSE state)
                    /\ miles_remaining' = left
                    /\ miles_since_fuel' = IF combine THEN 0 ELSE since
                    /\ plan_time' = t1 + timedelta(BREAK_DURATION_HOURS)
                    /\ need_fuel' = nf
                    /\ pc' = "plan_loop"
           ELSE \* drive this segment
                /\ plan_segments' = Append(plan_segments,
                       TripSegment("drive", DRIVING, plan_time, hours,
                                   loc_at(miles_remaining),
                                   loc_at(miles_remaining - miles), miles,
                                   ReasonDriving))
                /\ state' = add_driving(state, hours)
                /\ miles_remaining' = miles_remaining - miles
                /\ miles_since_fuel' = miles_since_fuel + miles
                /\ plan_time' = plan_time + timedelta(hours)
                /\ need_fuel' = nf
                /\ pc' = IF nf /\ MoreThanTenthMile(miles_remaining - miles)
                           THEN "fuel_stop" ELSE "plan_loop"
    /\ UNCHANGED <<tripVars, eldVars, viewVars, callerVars>>

\* `if need_fuel and miles_remaining > 0.1` after the drive; loc = seg_end
PlanFuelStop ==
    /\ pc = "fuel_stop"
    /\ plan_segments' = Append(plan_segments,
           TripSegment("fuel", ON_DUTY, plan_time, FUEL_STOP_DURATION_HOURS,
                       Last(plan_segments).end_location,
                       Last(plan_segments).end_location, 0, ReasonFuel))
    /\ state' = add_on_duty(state, FUEL_STOP_DURATION_HOURS)
    /\ miles_since_fuel' = 0
    /\ plan_time' = plan_time + timedelta(FUEL_STOP_DURATION_HOURS)
    /\ pc' = "plan_loop"
    /\ UNCHANGED <<tripVars, eldVars, viewVars, callerVars, miles_remaining, need_fuel>>

(***************************************************************************)
(* calculate_trip                                                          *)
(***************************************************************************)
\* the loop ends; segments.extend(...); current_time = segments[-1].end_time
PlanReturn ==
    /\ pc = "plan_loop"
    /\ ~MoreThanTenthMile(miles_remaining)
    /\ segments' = segments \o plan_segments
    /\ IF segments' = <<>>
         THEN /\ error' = "IndexError"
              /\ pc' = "crashed"
              /\ current_time' = current_time
         ELSE /\ error' = error
              /\ pc' = "check_rest"
              /\ current_time' = Last(segments').end_time
    /\ UNCHANGED <<tripVars, eldVars, viewVars, state, leg_index, plan_segments, miles_remaining,
                   miles_since_fuel, plan_time, need_fuel>>

\* the segment _check_and_add_rest_if_needed appends, if any
RestIfNeeded(s, t, location) ==
    IF needs_cycle_reset(s)
      THEN <<TripSegment("rest", OFF_DUTY, t, CYCLE_RESTART_HOURS, location,
                         location, 0, ReasonRestart)>>
      ELSE IF needs_rest(s)
        THEN <<TripSegment("rest", OFF_DUTY, t, REST_DURATION_HOURS, location,
                           location, 0, ReasonRestWork)>>
        ELSE <<>>

StateAfterRestCheckKeepingCycle(s) ==
    IF needs_cycle_reset(s) \/ needs_rest(s) THEN take_rest(s) ELSE s

\* the ledger after _check_and_add_rest_if_needed
StateAfterRestCheck(s) ==
    IF needs_cycle_reset(s) THEN take_cycle_restart(s)
    ELSE IF needs_rest(s) THEN take_rest(s)
    ELSE s

TimeBeforeRestCheck(segs, t) == t

\* current_time = segments[-1].end_time if segments else current_time
TimeAfterRestCheck(segs, t) == IF segs # <<>> THEN Last(segs).end_time ELSE t

\* _check_and_add_rest_if_needed and the update of current_time after it
CheckAndAddRestIfNeeded ==
    /\ pc = "check_rest"
    /\ segments' = segments \o RestIfNeeded(state, current_time,
                                               end_loc(leg_index))
    /\ state' = StateAfterRestCheck(state)
    /\ current_time' = TimeAfterRestCheck(segments', current_time)
    /\ pc' = "terminal_work"
    /\ UNCHANGED <<tripVars, eldVars, viewVars, leg_index, error, plan_segments, miles_remaining,
                   miles_since_fuel, plan_time, need_fuel>>

Pickup ==
    /\ pc = "terminal_work"
    /\ leg.leg_type = "drive_to_pickup"
    /\ segments' = Append(segments,
           TripSegment("pickup", ON_DUTY, current_time, PICKUP_DURATION_HOURS,
                       end_loc(leg_index), end_loc(leg_index), 0,
                       ReasonPickup))
    /\ state' = add_on_duty(state, PICKUP_DURATION_HOURS)
    /\ current_time' = current_time + timedelta(PICKUP_DURATION_HOURS)
    /\ leg_index' = leg_index + 1
    /\ pc' = "next_leg"
    /\ UNCHANGED <<tripVars, eldVars, viewVars, error, plan_segments, miles_remaining,
                   miles_since_fuel, plan_time, need_fuel>>

Dropoff ==
    /\ pc = "terminal_work"
    /\ leg.leg_type = "drive_to_dropoff"
    /\ segments' = Append(segments,
           TripSegment("dropoff", ON_DUTY, current_time, DROPOFF_DURATION_HOURS,
                       end_loc(leg_index), end_loc(leg_index), 0,
                       ReasonDropoff))
    /\ state' = add_on_duty(state, DROPOFF_DURATION_HOURS)
    /\ current_time' = current_time + timedelta(DROPOFF_DURATION_HOURS)
    /\ leg_index' = leg_index + 1
    /\ pc' = "next_leg"
    /\ UNCHANGED <<tripVars, eldVars, viewVars, error, plan_segments, miles_remaining,
                   miles_since_fuel, plan_time, need_fuel>>

\* return segments
Return ==
    /\ pc = "next_leg"
    /\ leg_index > Len(route_legs)
    /\ pc' = "done"
    /\ UNCHANGED <<tripVars, eldVars, viewVars, state, callerVars, plan_segments, miles_remaining,
                   miles_since_fuel, plan_time, need_fuel>>

(***************************************************************************)
(* generate_eld_logs (trips/eld_generator.py).  Hours of the day are kept  *)
(* in units of 0.0001 h (round(x, 4)), daily totals in units of 0.01 h     *)
(* (round(x, 2)) and daily miles in tenths of a mile (round(x, 1)).        *)
(***************************************************************************)
Day == Hours(24)

\* datetime.date(), in days from the day of start_time
DateOf(t) == t \div Day

\* round(hours, 4) of a number of ticks
Round4(ticks) == RoundHalfEven(ticks * 10000, TicksPerHour)

\* round(hours, 2) of a number of 0.0001 h
Round2(h4) == RoundHalfEven(h4, 100)

map_duty_status(status) ==
    IF status \in {OFF_DUTY, "sleeper_berth", DRIVING, ON_DUTY} THEN status
    ELSE IF status = "on_duty" THEN ON_DUTY
    ELSE OFF_DUTY

\* seg_start = max(seg.start_time, day_start)
seg_start(seg, day_start) == Max(seg.start_time, day_start)

\* seg_end = min(seg.end_time, day_end)
seg_end(seg, day_start) == Min(seg.end_time, day_start + Day)

\* not `if seg_start >= seg_end: continue`
OverlapsDay(seg, day_start) == seg_start(seg, day_start) < seg_end(seg, day_start)

DayEntryFromSegmentStart(seg, day_start) ==
    [status |-> map_duty_status(seg.duty_status),
     start_hour |-> Round4(seg.start_time - day_start),
     end_hour |-> Round4(seg_end(seg, day_start) - day_start),
     segment_type |-> seg.segment_type]

DayEntry(seg, day_start) ==
    [status |-> map_duty_status(seg.duty_status),
     start_hour |-> Round4(seg_start(seg, day_start) - day_start),
     end_hour |-> Round4(seg_end(seg, day_start) - day_start),
     segment_type |-> seg.segment_type]

RECURSIVE day_entries(_, _)
day_entries(segs, day_start) ==
    IF segs = <<>> THEN <<>>
    ELSE (IF OverlapsDay(segs[1], day_start)
            THEN <<DayEntry(segs[1], day_start)>> ELSE <<>>)
         \o day_entries(Tail(segs), day_start)

\* entries.sort(key=start_hour): a stable sort
RECURSIVE InsertByStartHour(_, _)
InsertByStartHour(sorted, entry) ==
    IF sorted = <<>> THEN <<entry>>
    ELSE IF Last(sorted).start_hour <= entry.start_hour
      THEN Append(sorted, entry)
      ELSE Append(InsertByStartHour(Front(sorted), entry), Last(sorted))

RECURSIVE SortByStartHour(_)
SortByStartHour(entries) ==
    IF entries = <<>> THEN <<>>
    ELSE InsertByStartHour(SortByStartHour(Front(entries)), Last(entries))

OffDutyEntry(from, to) ==
    [status |-> OFF_DUTY, start_hour |-> from, end_hour |-> to,
     segment_type |-> "off_duty"]

\* the loop of _fill_gaps and its trailing filler, without the filler
RECURSIVE FillFromNoTail(_, _)
FillFromNoTail(entries, current_hour) ==
    IF entries = <<>> THEN <<>>
    ELSE (IF entries[1].start_hour > current_hour + 100
            THEN <<OffDutyEntry(current_hour, entries[1].start_hour)>>
            ELSE <<>>)
         \o <<entries[1]>>
         \o FillFromNoTail(Tail(entries), entries[1].end_hour)

\* the loop of _fill_gaps and its trailing filler: 0.01 h and 23.99 h are
\* 100 and 239900 units
RECURSIVE FillFrom(_, _)
FillFrom(entries, current_hour) ==
    IF entries = <<>>
      THEN IF current_hour < 239900
             THEN <<OffDutyEntry(current_hour, 240000)>> ELSE <<>>
      ELSE (IF entries[1].start_hour > current_hour + 100
              THEN <<OffDutyEntry(current_hour, entries[1].start_hour)>>
              ELSE <<>>)
           \o <<entries[1]>>
           \o FillFrom(Tail(entries), entries[1].end_hour)

fill_gaps(entries) ==
    IF entries = <<>> THEN <<OffDutyEntry(0, 240000)>>
    ELSE FillFrom(SortByStartHour(entries), 0)

RECURSIVE hours_by_status(_, _)
hours_by_status(entries, status) ==
    IF entries = <<>> THEN 0
    ELSE (IF entries[1].status = status
            THEN entries[1].end_hour - entries[1].start_hour ELSE 0)
         + hours_by_status(Tail(entries), status)

total_hours(entries) ==
    [off_duty |-> Round2(hours_by_status(entries, "off_duty")),
     sleeper_berth |-> Round2(hours_by_status(entries, "sleeper_berth")),
     driving |-> Round2(hours_by_status(entries, "driving")),
     on_duty_not_driving |->
         Round2(hours_by_status(entries, "on_duty_not_driving"))]

\* a number of ticks whole + num / den, 0 <= num < den
Rational(whole, num, den) == [whole |-> whole, num |-> num, den |-> den]

AddRational(x, y) ==
    IF y.num = 0 THEN [x EXCEPT !.whole = @ + y.whole]
    ELSE LET num == x.num * y.den + y.num * x.den
             den == x.den * y.den
         IN  Rational(x.whole + y.whole + num \div den, num % den, den)

\* the miles a segment adds to day_miles, without the fraction of the day
MilesOnDayWhole(seg, day_start) ==
    IF seg.duty_status = DRIVING /\ seg.distance_miles > 0
      THEN Rational(seg.distance_miles, 0, 1)
      ELSE Rational(0, 0, 1)

\* the miles a segment adds to day_miles:
\* seg.distance_miles * (duration / seg.duration_hours())
MilesOnDay(seg, day_start) ==
    LET duration == (seg_end(seg, day_start) - seg_start(seg, day_start))
                        \div Grain
        seg_total_hours == (seg.end_time - seg.start_time) \div Grain
    IN  IF seg.duty_status = DRIVING /\ seg.distance_miles > 0
             /\ seg_total_hours > 0
          THEN Rational((seg.distance_miles * duration) \div seg_total_hours,
                        (seg.distance_miles * duration) % seg_total_hours,
                        seg_total_hours)
          ELSE Rational(0, 0, 1)

RECURSIVE day_miles(_, _)
day_miles(segs, day_start) ==
    IF segs = <<>> THEN Rational(0, 0, 1)
    ELSE AddRational(day_miles(Front(segs), day_start),
                     IF OverlapsDay(Last(segs), day_start)
                       THEN MilesOnDay(Last(segs), day_start)
                       ELSE Rational(0, 0, 1))

\* round(miles, 1) of a rational number of ticks, in tenths of a mile
Round1(x) ==
    10 * (x.whole \div TicksPerMile)
    + RoundHalfEven(((x.whole % TicksPerMile) * x.den + x.num) * 10,
                    TicksPerMile * x.den)

\* f"{seg_start.strftime('%H:%M')} - {seg.reason}": the minute of the day
\* and the reason
Remark(seg, day_start) ==
    [time |-> ((seg_start(seg, day_start) - day_start) * 60) \div TicksPerHour,
     reason |-> seg.reason]

RECURSIVE day_remarks(_, _)
day_remarks(segs, day_start) ==
    IF segs = <<>> THEN <<>>
    ELSE (IF /\ OverlapsDay(segs[1], day_start)
             /\ segs[1].reason # ""
             /\ seg_start(segs[1], day_start) >= segs[1].start_time
            THEN <<Remark(segs[1], day_start)>> ELSE <<>>)
         \o day_remarks(Tail(segs), day_start)

DayTotalHoursBeforeFill(segs, day_start) ==
    total_hours(day_entries(segs, day_start))

\* the totals are recomputed from the entries after the gaps are filled
DayTotalHours(segs, day_start) ==
    total_hours(fill_gaps(day_entries(segs, day_start)))

\* one iteration of `while current_date <= end_date`
DailyLog(segs, current_date, day_num) ==
    [date |-> current_date,
     day_number |-> day_num,
     entries |-> fill_gaps(day_entries(segs, current_date * Day)),
     total_hours |-> DayTotalHours(segs, current_date * Day),
     total_miles |-> Round1(day_miles(segs, current_date * Day)),
     remarks |-> day_remarks(segs, current_date * Day)]

generate_eld_logs(segs, start_date_arg) ==
    IF segs = <<>> THEN <<>>
    ELSE LET start_date == IF start_date_arg # <<>>
                             THEN start_date_arg[1]
                             ELSE DateOf(segs[1].start_time)
             end_date == DateOf(Last(segs).end_time)
         IN  [i \in 1..Max(0, end_date - start_date + 1) |->
                 DailyLog(segs, start_date + i - 1, i)]

\* the daily logs of the returned segment list, for any trip_start_date
GenerateEldLogs ==
    /\ pc = "done"
    /\ trip_start_date' \in TripStartDates
    /\ eld_logs' = generate_eld_logs(segments, trip_start_date')
    /\ pc' = "logged"
    /\ UNCHANGED <<tripVars, viewVars, state, callerVars, plan_segments,
                   miles_remaining, miles_since_fuel, plan_time, need_fuel>>

Next ==
    \/ StartLeg
    \/ PlanCycleRestart
    \/ PlanBreak
    \/ PlanRest
    \/ PlanDrive
    \/ PlanFuelStop
    \/ PlanReturn
    \/ CheckAndAddRestIfNeeded
    \/ Pickup
    \/ Dropoff
    \/ Return
    \/ GenerateEldLogs

Spec == Init /\ [][Next]_vars

(***************************************************************************)
(* plan_trip (trips/views.py), after the serializer accepted the request   *)
(***************************************************************************)
\* the exception geocode() raises: ValueError for an empty result list
\* (route_service.py line 25), requests' HTTPError from raise_for_status()
\* (line 22), requests' ConnectionError or Timeout from requests.get (line
\* 16); the last two are not ValueErrors
geocode_raises(outcome) ==
    CASE outcome = "no_result" -> "ValueError"
      [] outcome = "http_error" -> "HTTPError"
      [] outcome = "unreachable" -> "ConnectionError"

\* `except ValueError` -> 400, `except Exception` -> 500
status_for(exception) == IF exception = "ValueError" THEN 400 ELSE 500

ViewInit ==
    /\ data \in [coords : SUBSET {LocationFields[i] : i \in 1..3},
                  current_cycle_used : RequestCycles]
    /\ geocoded = <<>>
    /\ response = 0
    /\ view_pc = "resolve"
    /\ route_legs = <<>>
    /\ current_cycle_used = data.current_cycle_used
    /\ start_time = Hours(6)
    /\ state = HOSState(0)
    /\ segments = <<>>
    /\ current_time = start_time
    /\ leg_index = 1
    /\ pc = "not_called"
    /\ error = "none"
    /\ plan_segments = <<>>
    /\ miles_remaining = 0
    /\ miles_since_fuel = 0
    /\ plan_time = start_time
    /\ need_fuel = FALSE
    /\ trip_start_date = <<>>
    /\ eld_logs = <<>>

\* data.get("..._coords") or geocode(data["..."]), for the next location
ResolveLocation ==
    /\ view_pc = "resolve"
    /\ Len(geocoded) < 3
    /\ IF LocationFields[Len(geocoded) + 1] \in data.coords
         THEN /\ geocoded' = Append(geocoded, "coords")
              /\ UNCHANGED <<response, view_pc>>
         ELSE \E outcome \in GeocodeOutcomes :
                /\ geocoded' = Append(geocoded, outcome)
                /\ IF outcome = "found"
                     THEN UNCHANGED <<response, view_pc>>
                     ELSE /\ response' = status_for(geocode_raises(outcome))
                          /\ view_pc' = "responded"
    /\ UNCHANGED <<tripVars, eldVars, data, state, callerVars, pc,
                   plan_segments, miles_remaining, miles_since_fuel,
                   plan_time, need_fuel>>

\* get_route twice, route_legs, and the entry of calculate_trip
CallCalculateTrip ==
    /\ view_pc = "resolve"
    /\ Len(geocoded) = 3
    /\ route_legs' \in RequestRoutes
    /\ state' = HOSState(data.current_cycle_used)
    /\ segments' = <<>>
    /\ current_time' = start_time
    /\ pc' = "next_leg"
    /\ view_pc' = "planning"
    /\ UNCHANGED <<current_cycle_used, start_time, eldVars, data, geocoded,
                   response, leg_index, error, plan_segments,
                   miles_remaining, miles_since_fuel, plan_time, need_fuel>>

\* eld_logs = generate_eld_logs(segments) and the Response
RespondWithPlan ==
    /\ view_pc = "planning"
    /\ pc = "done"
    /\ eld_logs' = generate_eld_logs(segments, <<>>)
    /\ response' = 200
    /\ view_pc' = "responded"
    /\ UNCHANGED <<tripVars, trip_start_date, data, geocoded, state,
                   callerVars, pc, plan_segments, miles_remaining,
                   miles_since_fuel, plan_time, need_fuel>>

\* an exception of calculate_trip reaches the handlers of plan_trip
RespondWithError ==
    /\ view_pc = "planning"
    /\ pc = "crashed"
    /\ response' = status_for(error)
    /\ view_pc' = "responded"
    /\ UNCHANGED <<tripVars, eldVars, data, geocoded, state, callerVars, pc,
                   plan_segments, miles_remaining, miles_since_fuel,
                   plan_time, need_fuel>>

ViewNext ==
    \/ ResolveLocation
    \/ CallCalculateTrip
    \/ StartLeg
    \/ PlanCycleRestart
    \/ PlanBreak
    \/ PlanRest
    \/ PlanDrive
    \/ PlanFuelStop
    \/ PlanReturn
    \/ CheckAndAddRestIfNeeded
    \/ Pickup
    \/ Dropoff
    \/ Return
    \/ RespondWithPlan
    \/ RespondWithError

ViewSpec == ViewInit /\ [][ViewNext]_vars

(***************************************************************************)
(* Properties                                                              *)
(***************************************************************************)
WithinLimits(s) ==
    /\ s.driving_hours <= MAX_DRIVING_HOURS
    /\ s.window_hours <= MAX_WINDOW_HOURS
    /\ s.hours_since_break <= BREAK_AFTER_HOURS
    /\ s.cycle_hours <= MAX_CYCLE_HOURS

\* the ledger is mutated only together with the append of a segment, so in
\* every state it is the ledger "immediately after" the last emitted segment
LastEmittedIs(types) ==
    Emitted # <<>> /\ Last(Emitted).segment_type \in types

\* C1: immediately after every emitted drive segment the ledger satisfies
\* driving_hours <= 11, window_hours <= 14, hours_since_break <= 8 and
\* cycle_hours <= 70.
C1_LedgerCompliantAfterDrive ==
    LastEmittedIs({"drive"}) => WithinLimits(state)

\* a drive segment that ends with the 11-hour driving limit used up exactly
C1_Witness ==
    /\ LastEmittedIs({"drive"})
    /\ state.driving_hours = MAX_DRIVING_HOURS
    /\ state.cycle_hours > Hours(60)

\* C2 as claimed: after every segment the driving planner emits (drive,
\* break, rest, fuel) all four limits hold.
C2_AllLimitsAfterEveryPlannerSegment ==
    LastEmittedIs({"drive", "break", "rest", "fuel"}) => WithinLimits(state)

\* C2 amended: after every drive, break and rest segment all four limits
\* hold; after an on-duty fuel stop driving_hours <= 11 and
\* hours_since_break <= 8 hold, and window_hours and cycle_hours exceed their
\* limits by at most the half hour of the stop.
C2_LimitsAfterPlannerSegment ==
    /\ LastEmittedIs({"drive", "break", "rest"}) => WithinLimits(state)
    /\ LastEmittedIs({"fuel"}) =>
          /\ state.driving_hours <= MAX_DRIVING_HOURS
          /\ state.hours_since_break <= BREAK_AFTER_HOURS
          /\ state.window_hours <= MAX_WINDOW_HOURS + HalfHour
          /\ state.cycle_hours <= MAX_CYCLE_HOURS + HalfHour
          /\ Last(Emitted).duty_status = OFF_DUTY => WithinLimits(state)

\* an on-duty fuel stop that carries cycle_hours past 70
C2_Witness ==
    /\ LastEmittedIs({"fuel"})
    /\ Last(Emitted).duty_status = ON_DUTY
    /\ state.cycle_hours > MAX_CYCLE_HOURS

Contiguous(segs) ==
    \A i \in 1..(Len(segs) - 1) : segs[i].end_time = segs[i + 1].start_time

IsTerminalWork(seg) == seg.segment_type \in {"pickup", "dropoff"}

\* C3: in the list calculate_trip returns, the first segment starts at
\* start_time and each segment ends exactly when the next one starts, also
\* across a leg boundary and across a rest inserted before a pickup/dropoff.
\* (Stated of the list at every moment of its construction, hence of the
\* returned one.)
C3_TimelineContiguous ==
    /\ Emitted # <<>> => Emitted[1].start_time = start_time
    /\ Contiguous(Emitted)

\* a returned two-leg trip with a rest inserted between a drive and its
\* pickup/dropoff
C3_Witness ==
    /\ pc = "done"
    /\ Len(route_legs) >= 2
    /\ \E i \in 2..(Len(segments) - 1) :
          /\ segments[i - 1].segment_type = "drive"
          /\ segments[i].segment_type = "rest"
          /\ IsTerminalWork(segments[i + 1])
    /\ \E i \in 1..(Len(segments) - 1) :
          /\ IsTerminalWork(segments[i])
          /\ segments[i + 1].segment_type = "drive"

RECURSIVE SumDriveMiles(_)
SumDriveMiles(segs) ==
    IF segs = <<>> THEN 0
    ELSE (IF segs[1].segment_type = "drive" THEN segs[1].distance_miles ELSE 0)
         + SumDriveMiles(Tail(segs))

LegPlanned == pc \in {"check_rest", "terminal_work", "crashed"}

\* C4: for each leg, whatever the ledger at its start, the drive segments
\* emitted for the leg add up to the leg's distance within 0.5 mi; while the
\* leg is being planned, the miles driven and the miles remaining add up to
\* the leg's distance exactly.
C4_DistanceConserved ==
    /\ pc \in {"plan_loop", "fuel_stop"} =>
          SumDriveMiles(plan_segments) + miles_remaining = leg.distance_miles
    /\ LegPlanned =>
          2 * Abs(leg.distance_miles - SumDriveMiles(plan_segments))
             <= TicksPerMile

\* a 1200-mile leg planned from a ledger that is not fresh, split into
\* several drive segments
C4_Witness ==
    /\ LegPlanned
    /\ leg_index = 2
    /\ leg.distance_miles = Miles(1200)
    /\ SumDriveMiles(plan_segments) = Miles(1200)
    /\ Len(plan_segments) >= 5

\* drive miles emitted since the last fuel segment of segs (since its start
\* when it holds none)
RECURSIVE DriveMilesSinceFuel(_)
DriveMilesSinceFuel(segs) ==
    IF segs = <<>> \/ Last(segs).segment_type = "fuel" THEN 0
    ELSE (IF Last(segs).segment_type = "drive"
            THEN Last(segs).distance_miles ELSE 0)
         + DriveMilesSinceFuel(SubSeq(segs, 1, Len(segs) - 1))

\* C5: over the whole segment list of a trip (across legs) no run of drive
\* segments totals more than 1000 + 100 miles without a fuel segment in it.
\* Every prefix of the list is the list of some state, so the bound on the
\* miles since the last fuel segment covers every run.
C5_FuelCadenceAcrossLegs ==
    DriveMilesSinceFuel(Emitted) <= FUEL_INTERVAL_MILES + CombineWindowMiles

\* index of the last 10-hour or 34-hour rest of segs, 0 when there is none
LastRestIndex(segs) ==
    LET rests == {i \in 1..Len(segs) : segs[i].segment_type = "rest"}
    IN  IF rests = {} THEN 0 ELSE CHOOSE i \in rests : \A j \in rests : j <= i

\* start of the first driving/on-duty segment after the last rest
WindowStart(segs) ==
    LET work == {i \in (LastRestIndex(segs) + 1)..Len(segs) :
                    segs[i].duty_status \in {DRIVING, ON_DUTY}}
        first == CHOOSE i \in work : \A j \in work : i <= j
    IN  segs[first].start_time

\* C6: measured in wall-clock time from the start of the first
\* driving/on-duty segment after trip start or after the most recent 10-hour
\* or 34-hour rest (30-minute breaks included), no drive segment extends past
\* the 14th elapsed hour.
C6_DriveWithinElapsedWindow ==
    LastEmittedIs({"drive"}) =>
        Last(Emitted).end_time - WindowStart(Emitted) <= MAX_WINDOW_HOURS

HasDrive(segs) == \E i \in 1..Len(segs) : segs[i].segment_type = "drive"

\* C7: a zero-distance leg is tolerated at any position, the first included:
\* no error is raised, no drive segment is emitted for the leg and the
\* planner goes on to the leg's pickup or dropoff.
C7_ZeroDistanceLegTolerated ==
    (leg_index \in DOMAIN route_legs /\ leg.distance_miles = 0) =>
        /\ error = "none"
        /\ pc # "crashed"
        /\ ~HasDrive(plan_segments)

\* the last segment of the leg's chain is a 30-minute stop: a plain break or
\* a combined fuel + break
LastIsHalfHourStop ==
    /\ pc = "plan_loop"
    /\ plan_segments # <<>>
    /\ Last(plan_segments).reason \in {ReasonBreak, ReasonFuelBreak}

\* miles driven in the leg since its last fuel segment, up to that stop
MilesSinceFuelAtStop ==
    DriveMilesSinceFuel(SubSeq(plan_segments, 1, Len(plan_segments) - 1))

\* C8: when a 30-minute break falls due within 100 miles of a due fuel stop
\* (miles since fuel within 100 of 1000, and the leg goes on past the fuel
\* point), the planner emits one off-duty fuel segment "Fuel stop +
\* 30-minute break" that resets hours_since_break and miles_since_fuel.
C8_BreakNearFuelIsCombined ==
    ( /\ LastIsHalfHourStop
      /\ Abs(MilesSinceFuelAtStop - FUEL_INTERVAL_MILES) < CombineWindowMiles
      /\ miles_remaining > FUEL_INTERVAL_MILES - MilesSinceFuelAtStop ) =>
        /\ Last(plan_segments).segment_type = "fuel"
        /\ Last(plan_segments).duty_status = OFF_DUTY
        /\ Last(plan_segments).reason = ReasonFuelBreak
        /\ state.hours_since_break = 0
        /\ miles_since_fuel = 0

Duration(seg) == seg.end_time - seg.start_time

\* segments appended to calculate_trip's list by the step
AddedToTrip == SubSeq(segments', Len(segments) + 1, Len(segments'))

C9_PickupStartsRested ==
    /\ pc = "terminal_work" =>
          /\ state.driving_hours < MAX_DRIVING_HOURS
          /\ state.window_hours < MAX_WINDOW_HOURS
          /\ state.cycle_hours < MAX_CYCLE_HOURS
    /\ \A i \in 1..(Len(segments) - 1) :
          IsTerminalWork(segments[i + 1]) =>
              /\ segments[i].segment_type # "break"
              /\ segments[i].reason \notin {ReasonBreak, ReasonFuelBreak}

C9_RestCheckStep ==
    pc = "check_rest" =>
        /\ pc' = "terminal_work"
        /\ SubSeq(segments', 1, Len(segments)) = segments
        /\ IF state.cycle_hours >= MAX_CYCLE_HOURS
             THEN /\ Len(AddedToTrip) = 1
                  /\ AddedToTrip[1].segment_type = "rest"
                  /\ Duration(AddedToTrip[1]) = CYCLE_RESTART_HOURS
                  /\ AddedToTrip[1].start_time = current_time
                  /\ state' = HOSState(0)
           ELSE IF \/ state.driving_hours >= MAX_DRIVING_HOURS
                   \/ state.window_hours >= MAX_WINDOW_HOURS
             THEN /\ Len(AddedToTrip) = 1
                  /\ AddedToTrip[1].segment_type = "rest"
                  /\ Duration(AddedToTrip[1]) = REST_DURATION_HOURS
                  /\ AddedToTrip[1].start_time = current_time
                  /\ state' = HOSState(state.cycle_hours)
           ELSE /\ AddedToTrip = <<>>
                /\ state' = state

C9_WitnessDaily ==
    /\ pc = "terminal_work"
    /\ Last(segments).reason = ReasonRestWork

IsRestart(seg) ==
    seg.segment_type = "rest" /\ Duration(seg) = CYCLE_RESTART_HOURS

C10_LedgerZeroAfterRestart ==
    (Emitted # <<>> /\ IsRestart(Last(Emitted))) => state = HOSState(0)

C10_RestartStep ==
    /\ (InLoop /\ state.cycle_hours >= MAX_CYCLE_HOURS) =>
          /\ plan_segments' # plan_segments
          /\ plan_segments' = Append(plan_segments, Last(plan_segments'))
          /\ IsRestart(Last(plan_segments'))
          /\ Last(plan_segments').duty_status = OFF_DUTY
          /\ Last(plan_segments').reason = ReasonRestart
    /\ (Len(Emitted') > Len(Emitted)
            /\ Last(Emitted').segment_type = "drive") =>
          state.cycle_hours < MAX_CYCLE_HOURS

\* C10: whenever cycle_hours has reached 70 while miles remain in a leg, the
\* next segment is a 34-hour off-duty rest with reason "Required 34-hour
\* restart (70hr cycle limit)", and no drive segment is emitted from a ledger
\* with cycle_hours >= 70; immediately after every 34-hour rest (mid-drive or
\* before a pickup/dropoff) the four counters are 0 and on_duty is false.
C10_CycleRestart ==
    [] C10_LedgerZeroAfterRestart /\ [][C10_RestartStep]_vars

\* a 34-hour rest taken in the middle of a leg, after some driving
C10_Witness ==
    /\ InLoop
    /\ Len(plan_segments) >= 2
    /\ IsRestart(Last(plan_segments))
    /\ plan_segments[1].segment_type = "drive"

\* a segment whose reason contains "30-minute break"
IsBreakSegment(seg) == seg.reason \in {ReasonBreak, ReasonFuelBreak}

\* miles driven since the last 30-minute break or rest of segs (since the
\* start of the trip when it holds none)
RECURSIVE DriveMilesSinceBreak(_)
DriveMilesSinceBreak(segs) ==
    IF segs = <<>> \/ IsBreakSegment(Last(segs))
                  \/ Last(segs).segment_type \in {"break", "rest"}
      THEN 0
      ELSE (IF Last(segs).segment_type = "drive"
              THEN Last(segs).distance_miles ELSE 0)
           + DriveMilesSinceBreak(Front(segs))

\* the last emitted segment is a 30-minute break
BreakJustEmitted == Emitted # <<>> /\ IsBreakSegment(Last(Emitted))

\* ... and it is the first interruption of its kind in the trip
FirstBreakJustEmitted ==
    /\ BreakJustEmitted
    /\ \A i \in 1..(Len(Emitted) - 1) : ~IsBreakSegment(Emitted[i])

\* every break follows exactly 8 hours (440 miles at 55 mph) of driving
\* since the previous break, rest or trip start
C11_EightHoursDrivenBeforeBreak ==
    BreakJustEmitted =>
        /\ DriveMilesSinceBreak(Front(Emitted)) = Miles(440)
        /\ HoursFor(DriveMilesSinceBreak(Front(Emitted))) = Hours(8)

\* a step that emits a break starts from hours_since_break = 8 exactly
C11_BreakStep ==
    (Len(Emitted') > Len(Emitted) /\ IsBreakSegment(Last(Emitted'))) =>
        state.hours_since_break = Hours(8)

\* C11 as claimed: every 30-minute break segment starts when exactly 8 hours
\* of driving have accumulated since the previous break, rest or trip start,
\* and on a trip that starts with a fresh ledger the first break begins
\* after 440 miles of driving.
C11_BreakAtEightHoursFirstAt440Miles ==
    /\ C11_EightHoursDrivenBeforeBreak
    /\ (current_cycle_used = 0 /\ FirstBreakJustEmitted) =>
          SumDriveMiles(Emitted) = Miles(440)

\* C11 amended: every 30-minute break segment starts when exactly 8 hours
\* of driving have accumulated since the previous break, rest or trip start
\* (never less); on a trip that starts with a fresh ledger the first break
\* begins after 440 miles of driving unless a rest precedes it.
C11_BreakAtEightHours ==
    /\ [] C11_EightHoursDrivenBeforeBreak
    /\ [] ((current_cycle_used = 0 /\ FirstBreakJustEmitted
               /\ LastRestIndex(Emitted) = 0) =>
              SumDriveMiles(Emitted) = Miles(440))
    /\ [][C11_BreakStep]_vars

\* a break taken after a 10-hour rest that preceded every break of the trip:
\* the first break of a fresh-ledger trip, later than mile 440
C11_Witness ==
    /\ current_cycle_used = 0
    /\ FirstBreakJustEmitted
    /\ LastRestIndex(Emitted) > 0
    /\ SumDriveMiles(Emitted) > Miles(440)

IsInterruption(seg) == seg.segment_type \in {"break", "rest", "fuel"}

HasInterruption(segs) == \E i \in 1..Len(segs) : IsInterruption(segs[i])

\* some limit of the ledger is reached
LimitReached(s) ==
    \/ s.hours_since_break >= Hours(8)
    \/ s.driving_hours >= Hours(11)
    \/ s.window_hours >= Hours(14)
    \/ s.cycle_hours >= Hours(70)

\* segments appended by the step, to the trip's list or to the leg's chain
JustEmitted == SubSeq(Emitted', Len(Emitted) + 1, Len(Emitted'))

\* a break or rest is emitted only from a ledger that has reached a limit,
\* a fuel stop only in a leg longer than 1000 miles
C12_InterruptionStep ==
    \A i \in 1..Len(JustEmitted) :
        /\ JustEmitted[i].segment_type \in {"break", "rest"} =>
               LimitReached(state)
        /\ JustEmitted[i].segment_type = "fuel" =>
               leg.distance_miles > Miles(1000)

LegChainComplete == pc \in {"check_rest", "terminal_work"}

\* the chain of a leg planned without interruption is one drive of the whole
\* leg
C12_OneDrivePerNonZeroLeg ==
    (LegChainComplete /\ ~HasInterruption(plan_segments)
        /\ leg.distance_miles > 0) =>
        /\ Len(plan_segments) = 1
        /\ plan_segments[1].segment_type = "drive"
        /\ plan_segments[1].distance_miles = leg.distance_miles

\* the same for legs longer than 0.1 mile; a shorter leg has no drive
C12_OneDrivePerLegOverTenthMile ==
    (LegChainComplete /\ ~HasInterruption(plan_segments)) =>
        IF MoreThanTenthMile(leg.distance_miles)
          THEN /\ Len(plan_segments) = 1
               /\ plan_segments[1].segment_type = "drive"
               /\ plan_segments[1].distance_miles = leg.distance_miles
          ELSE plan_segments = <<>>

C12_WitnessLimit ==
    /\ Emitted # <<>>
    /\ Last(Emitted).segment_type = "rest"
    /\ ~HasInterruption(Front(Emitted))

\* the chain in plan_segments belongs to the leg at leg_index
InLeg == pc \in {"plan_loop", "fuel_stop", "check_rest", "terminal_work"}

\* miles of the leg driven when its i-th segment starts
LegMileageAt(i) == SumDriveMiles(SubSeq(plan_segments, 1, i - 1))

FuelIndexes ==
    {i \in 1..Len(plan_segments) : plan_segments[i].segment_type = "fuel"}

\* the multiples of 1000 miles that lie more than 0.1 mile before distance
FuelPoints(distance) ==
    {Miles(1000) * k : k \in {j \in 1..(distance \div Miles(1000)) :
                                  MoreThanTenthMile(distance - Miles(1000) * j)}}

\* fuel segments stand at fuel points of the leg, one per point, and every
\* fuel point the leg has passed has its fuel segment
C13_FuelAtThousands ==
    InLeg =>
        /\ \A i \in FuelIndexes :
              /\ LegMileageAt(i) \in FuelPoints(leg.distance_miles)
              /\ plan_segments[i].duty_status = ON_DUTY
              /\ plan_segments[i].reason = ReasonFuel
              /\ 2 * Duration(plan_segments[i]) = Hours(1)
              /\ \A j \in FuelIndexes :
                    LegMileageAt(i) = LegMileageAt(j) => i = j
        /\ \A m \in FuelPoints(leg.distance_miles) :
              (LegChainComplete \/ SumDriveMiles(plan_segments) > m) =>
                  \E i \in FuelIndexes : LegMileageAt(i) = m

\* the ledger across a fuel stop
C13_FuelStep ==
    (Len(JustEmitted) > 0 /\ Last(JustEmitted).segment_type = "fuel") =>
        /\ 2 * (state'.window_hours - state.window_hours) = Hours(1)
        /\ 2 * (state'.cycle_hours - state.cycle_hours) = Hours(1)
        /\ state'.hours_since_break = state.hours_since_break
        /\ state'.driving_hours = state.driving_hours

\* C13: within a leg of distance D a fuel segment is emitted at leg mileage
\* 1000*k for every k >= 1 with 1000*k < D - 0.1 and at no other mileage;
\* each fuel stop is a 0.5-hour on_duty_not_driving segment that adds 0.5 h
\* to window_hours and cycle_hours and leaves hours_since_break alone.
C13_FuelEveryThousandMiles ==
    [] C13_FuelAtThousands /\ [][C13_FuelStep]_vars

\* a planned 2000-mile leg with its only fuel stop, at mile 1000
C13_WitnessTwoThousand ==
    /\ LegChainComplete
    /\ leg.distance_miles = Miles(2000)
    /\ {LegMileageAt(i) : i \in FuelIndexes} = {Miles(1000)}

\* a planned 2300-mile leg with its fuel stops at miles 1000 and 2000
C13_Witness ==
    /\ LegChainComplete
    /\ leg.distance_miles = Miles(2300)
    /\ {LegMileageAt(i) : i \in FuelIndexes} = {Miles(1000), Miles(2000)}
    /\ Cardinality(FuelIndexes) = 2

\* the fixed durations by kind of segment
HasFixedDuration(seg) ==
    /\ (seg.segment_type \in {"break", "fuel"}) => 2 * Duration(seg) = Hours(1)
    /\ (seg.segment_type \in {"pickup", "dropoff"}) => Duration(seg) = Hours(1)
    /\ (seg.segment_type = "rest") => Duration(seg) \in {Hours(10), Hours(34)}

C20_FixedDurations ==
    \A i \in 1..Len(Emitted) : HasFixedDuration(Emitted[i])

\* C20: every emitted segment has start_time < end_time, for every leg
\* distance and every current_cycle_used in [0, 70], drive segments cut
\* short by a nearly exhausted limit included; break and fuel segments last
\* exactly 0.5 h, pickup and dropoff exactly 1 h, rest exactly 10 h or 34 h.
C20_PositiveExactDurations ==
    \A i \in 1..Len(Emitted) :
        /\ Emitted[i].start_time < Emitted[i].end_time
        /\ HasFixedDuration(Emitted[i])

(***************************************************************************)
(* Properties of the daily logs                                            *)
(***************************************************************************)
Logged == pc = "logged"

\* trip_start_date is omitted or not later than the first segment's date
StartDateNotLate ==
    \/ trip_start_date = <<>>
    \/ segments = <<>>
    \/ trip_start_date[1] <= DateOf(segments[1].start_time)

\* consecutive entries meet within 0.01 h, entries are sorted and not empty
Chained(entries) ==
    /\ entries # <<>>
    /\ \A i \in 1..Len(entries) : entries[i].start_hour < entries[i].end_hour
    /\ \A i \in 1..(Len(entries) - 1) :
          /\ entries[i].start_hour <= entries[i + 1].start_hour
          /\ Abs(entries[i].end_hour - entries[i + 1].start_hour) <= 100

\* a day no segment overlaps is the single off_duty entry [0, 24]
EmptyDayIsOffDuty(log) ==
    day_entries(segments, log.date * Day) = <<>> =>
        log.entries = <<OffDutyEntry(0, 240000)>>

\* the segments are covered: every overlapping slice is an entry of the day
SlicesAreEntries(log) ==
    \A i \in 1..Len(segments) :
        OverlapsDay(segments[i], log.date * Day) =>
            \E j \in 1..Len(log.entries) :
                log.entries[j] = DayEntry(segments[i], log.date * Day)

\* every entry is a slice of a segment or an off_duty filler
EntriesAreSlicesOrFillers(log) ==
    \A j \in 1..Len(log.entries) :
        \/ log.entries[j].status = OFF_DUTY
              /\ log.entries[j].segment_type = "off_duty"
        \/ \E i \in 1..Len(segments) :
              /\ OverlapsDay(segments[i], log.date * Day)
              /\ log.entries[j] = DayEntry(segments[i], log.date * Day)

\* C14 as claimed: in every DailyLog the entries tile [0, 24]: sorted by
\* start_hour, the first starts at 0, the last ends at 24, each has
\* start_hour < end_hour and ends where the next starts (within 0.01);
\* gaps are off_duty and a day without segments is one off_duty entry.
C14_EntriesTileDayExactly ==
    Logged =>
        \A d \in 1..Len(eld_logs) :
            /\ Chained(eld_logs[d].entries)
            /\ eld_logs[d].entries[1].start_hour = 0
            /\ Last(eld_logs[d].entries).end_hour = 240000
            /\ EmptyDayIsOffDuty(eld_logs[d])
            /\ SlicesAreEntries(eld_logs[d])
            /\ EntriesAreSlicesOrFillers(eld_logs[d])

\* C14 amended: in every DailyLog the entries tile [0, 24] up to the 0.01 h
\* tolerance of the gap filler: sorted by start_hour, the first starts
\* within 0.01 of 0, the last ends within 0.01 of 24, each has start_hour <
\* end_hour and ends where the next starts (within 0.01); wider gaps are
\* off_duty and a day without segments is one off_duty entry [0, 24].
C14_EntriesTileDay ==
    Logged =>
        \A d \in 1..Len(eld_logs) :
            /\ Chained(eld_logs[d].entries)
            /\ eld_logs[d].entries[1].start_hour \in 0..100
            /\ Last(eld_logs[d].entries).end_hour \in 239900..240000
            /\ EmptyDayIsOffDuty(eld_logs[d])
            /\ SlicesAreEntries(eld_logs[d])
            /\ EntriesAreSlicesOrFillers(eld_logs[d])

\* a day whose last entry ends less than 0.01 h before midnight, unfilled
C14_Witness ==
    /\ Logged
    /\ \E d \in 1..Len(eld_logs) :
          /\ Last(eld_logs[d].entries).end_hour \in 239900..239999
          /\ Len(eld_logs[d].entries) >= 3

\* a day whose first entry starts less than 0.01 h after midnight, and a day
\* with a filler between midnight and the first segment
C14_WitnessStart ==
    /\ Logged
    /\ \E d \in 1..Len(eld_logs) : eld_logs[d].entries[1].start_hour \in 1..100

RECURSIVE SumDriveHours(_)
SumDriveHours(segs) ==
    IF segs = <<>> THEN 0
    ELSE (IF segs[1].segment_type = "drive" THEN Duration(segs[1]) ELSE 0)
         + SumDriveHours(Tail(segs))

\* the driving totals of the days, added up
RECURSIVE SumDriving(_)
SumDriving(logs) ==
    IF logs = <<>> THEN 0
    ELSE logs[1].total_hours.driving + SumDriving(Tail(logs))

\* the total_miles of the days, added up
RECURSIVE SumMiles(_)
SumMiles(logs) ==
    IF logs = <<>> THEN 0
    ELSE logs[1].total_miles + SumMiles(Tail(logs))

\* the four totals of the day, in units of 0.01 h
TotalOfDay(log) ==
    log.total_hours.off_duty + log.total_hours.sleeper_berth
    + log.total_hours.driving + log.total_hours.on_duty_not_driving

\* each day's four totals add up to 24 h within 0.02 h
DaysSumTo24 ==
    \A d \in 1..Len(eld_logs) : Abs(TotalOfDay(eld_logs[d]) - 2400) <= 2

\* the daily driving totals against the drive durations, as a number of
\* 1 / (100 * TicksPerHour) hour
DrivingHoursGap ==
    Abs(SumDriving(eld_logs) * TicksPerHour
        - 100 * SumDriveHours(segments))

\* C15 as claimed: for every non-empty segment list of the planner and any
\* trip_start_date, each day's four total_hours add up to 24 (within 0.02)
\* and the driving totals of all days add up to the drive segments'
\* durations (within 0.02 h).
C15_HoursConservedAnyStartDate ==
    (Logged /\ segments # <<>>) =>
        /\ DaysSumTo24
        /\ DrivingHoursGap <= 2 * TicksPerHour

\* C15 amended: for every non-empty segment list of the planner, each
\* day's four total_hours add up to 24 (within 0.02); when trip_start_date
\* is omitted or not later than the first segment's date, the driving
\* totals of all days add up to the drive segments' durations within 0.01 h
\* per DailyLog.
C15_HoursConserved ==
    (Logged /\ segments # <<>>) =>
        /\ DaysSumTo24
        /\ StartDateNotLate =>
              DrivingHoursGap <= Len(eld_logs) * TicksPerHour

\* logs that start the day before a trip whose driving spans three days
C15_Witness ==
    /\ Logged
    /\ trip_start_date = <<0 - 1>>
    /\ Len(eld_logs) >= 4
    /\ \A d \in 2..4 : eld_logs[d].total_hours.driving > 0
    /\ \E i \in 1..Len(segments) :
          /\ segments[i].segment_type = "drive"
          /\ DateOf(segments[i].start_time) < DateOf(segments[i].end_time)

\* the daily miles against the drive segments' miles, as a number of
\* 1 / (10 * TicksPerMile) mile
MilesGap ==
    Abs(SumMiles(eld_logs) * TicksPerMile
        - 10 * SumDriveMiles(segments))

\* C16 as claimed: for any trip_start_date the total_miles of all days add
\* up to the drive segments' distance_miles (within 0.2 mi); a drive that
\* crosses midnight is split between its two days.
C16_MilesConservedAnyStartDate ==
    Logged => MilesGap <= 2 * TicksPerMile

\* C16 amended: when trip_start_date is omitted or not later than the
\* first segment's date, the total_miles of all days add up to the drive
\* segments' distance_miles within 0.1 mi per DailyLog; a drive that
\* crosses midnight is split between its two days in proportion to the
\* time spent on each.
C16_MilesConserved ==
    (Logged /\ StartDateNotLate) => MilesGap <= Len(eld_logs) * TicksPerMile

\* a drive of 440 miles from 20:00 to 04:00 logged as 220 miles on each day
C16_Witness ==
    /\ Logged
    /\ trip_start_date = <<>>
    /\ segments # <<>>
    /\ segments[1].segment_type = "drive"
    /\ segments[1].distance_miles = Miles(440)
    /\ segments[1].start_time = Hours(20)
    /\ eld_logs[1].total_miles = 2200
    /\ eld_logs[2].total_miles >= 2200

\* C17: there is exactly one DailyLog per calendar day from
\* max(trip_start_date, date of the first segment's start) through the date
\* of the last segment's end, in order, with day_number 1, 2, 3, ...; an
\* earlier trip_start_date adds no days; no segments, no logs.
C17_OneLogPerDayOfTrip ==
    Logged =>
        IF segments = <<>> THEN eld_logs = <<>>
        ELSE LET first == DateOf(segments[1].start_time)
                 from == IF trip_start_date = <<>> THEN first
                         ELSE Max(trip_start_date[1], first)
                 to == DateOf(Last(segments).end_time)
             IN  /\ Len(eld_logs) = Max(0, to - from + 1)
                 /\ \A d \in 1..Len(eld_logs) :
                       /\ eld_logs[d].date = from + d - 1
                       /\ eld_logs[d].day_number = d

\* the segments that start on the date, as remarks
RECURSIVE RemarksOfDate(_, _)
RemarksOfDate(segs, date) ==
    IF segs = <<>> THEN <<>>
    ELSE (IF DateOf(segs[1].start_time) = date /\ segs[1].reason # ""
                /\ Duration(segs[1]) > 0
            THEN <<Remark(segs[1], date * Day)>> ELSE <<>>)
         \o RemarksOfDate(Tail(segs), date)

\* C18: the remark "HH:MM - reason" of a segment appears only in the day
\* that owns the segment's start: a segment that spans midnight adds no
\* remark to the following day, and each segment adds exactly one remark.
C18_RemarkOnStartDayOnly ==
    (Logged /\ trip_start_date = <<>>) =>
        \A d \in 1..Len(eld_logs) :
            eld_logs[d].remarks = RemarksOfDate(segments, eld_logs[d].date)

\* the trip starts at 20:00, ends 30 hours later, and trip_start_date is
\* omitted
ThirtyHoursFromEight ==
    /\ Logged
    /\ trip_start_date = <<>>
    /\ segments # <<>>
    /\ segments[1].start_time = Hours(20)
    /\ Last(segments).end_time = Hours(20) + Hours(30)

TilesDay(log) ==
    /\ Chained(log.entries)
    /\ log.entries[1].start_hour = 0
    /\ Last(log.entries).end_hour = 240000

\* a segment that crosses the midnight at the end of the day of log is
\* sliced: an entry ending at 24.0 on that day, one starting at 0.0 on the
\* next
SlicedAtMidnight(log, next) ==
    \A i \in 1..Len(segments) :
        (segments[i].start_time < (log.date + 1) * Day
            /\ (log.date + 1) * Day < segments[i].end_time) =>
            /\ Last(log.entries).end_hour = 240000
            /\ Last(log.entries).segment_type = segments[i].segment_type
            /\ Last(log.entries).start_hour =
                   Round4(Max(segments[i].start_time, log.date * Day)
                          - log.date * Day)
            /\ next.entries[1].start_hour = 0
            /\ next.entries[1].segment_type = segments[i].segment_type
            /\ next.entries[1].status = Last(log.entries).status

\* C19 as claimed: such a list gives exactly two DailyLog records, each
\* tiling [0, 24], and the segment that crosses midnight appears as a slice
\* ending at 24.0 in the first and a slice starting at 0.0 in the second.
C19_TwoLogsForThirtyHours ==
    ThirtyHoursFromEight =>
        /\ Len(eld_logs) = 2
        /\ \A d \in 1..Len(eld_logs) : TilesDay(eld_logs[d])
        /\ \A d \in 1..(Len(eld_logs) - 1) :
              SlicedAtMidnight(eld_logs[d], eld_logs[d + 1])

\* C19 amended: such a list ends at 02:00 two days later and gives exactly
\* three DailyLog records, each tiling [0, 24]; a segment that crosses a
\* midnight appears as a slice ending at 24.0 in the one day and a slice
\* starting at 0.0 in the next.
C19_ThreeLogsForThirtyHours ==
    ThirtyHoursFromEight =>
        /\ Len(eld_logs) = 3
        /\ \A d \in 1..Len(eld_logs) : TilesDay(eld_logs[d])
        /\ \A d \in 1..(Len(eld_logs) - 1) :
              SlicedAtMidnight(eld_logs[d], eld_logs[d + 1])

\* the logs of the 30-hour trip, with a drive across each of its midnights
C19_Witness ==
    /\ ThirtyHoursFromEight
    /\ \A d \in 1..2 :
          \E i \in 1..Len(segments) :
              /\ segments[i].segment_type = "drive"
              /\ segments[i].start_time < d * Day
              /\ d * Day < segments[i].end_time

\* the duty status a segment of this kind and reason must carry
DutyOfKind(seg) ==
    CASE seg.segment_type = "drive" -> "driving"
      [] seg.segment_type \in {"pickup", "dropoff"} -> "on_duty_not_driving"
      [] seg.segment_type = "fuel" /\ seg.reason = "Fuel stop" ->
            "on_duty_not_driving"
      [] seg.segment_type = "fuel" /\ seg.reason # "Fuel stop" -> "off_duty"
      [] seg.segment_type \in {"break", "rest"} -> "off_duty"
      [] OTHER -> "no such kind"

KindAndDutyConsistent(seg) ==
    /\ seg.duty_status = DutyOfKind(seg)
    /\ seg.segment_type = "drive" => seg.distance_miles > 0
    /\ seg.segment_type # "drive" =>
          /\ seg.distance_miles = 0
          /\ seg.start_location = seg.end_location

\* C21: every emitted segment's kind and duty status are consistent: drive
\* segments have duty_status driving and distance > 0; pickup, dropoff and
\* standalone fuel segments are on_duty_not_driving; break, rest and combined
\* fuel+break segments are off_duty; every non-drive segment has
\* distance_miles = 0 and start_location equal to end_location.
C21_KindAndDutyConsistent ==
    \A i \in 1..Len(Emitted) : KindAndDutyConsistent(Emitted[i])

\* a returned trip that holds a segment of every kind, its interruptions
\* placed strictly inside a leg
C21_Witness ==
    /\ pc = "done"
    /\ {segments[i].segment_type : i \in 1..Len(segments)}
          = {"drive", "break", "rest", "fuel", "pickup", "dropoff"}
    /\ \E i \in 1..Len(segments) :
          /\ segments[i].segment_type = "fuel"
          /\ segments[i].start_location \notin {Place(k) : k \in 0..Len(route_legs)}

\* the counters a ledger mutation must leave alone
SameCounters(s, t, fields) == \A f \in fields : t[f] = s[f]

\* the ledger before and after a step, by the segment the step emits
C22_LedgerStep ==
    LET added == JustEmitted
        seg == added[1]
        h == IF seg.segment_type = "drive" THEN HoursFor(seg.distance_miles)
             ELSE IF seg.segment_type = "fuel" THEN Hours(1) \div 2
             ELSE Hours(1)
    IN  /\ Len(added) = 0 => state' = state
        /\ Len(added) = 1 =>
              CASE seg.segment_type = "drive" ->
                     \* add_driving(h)
                     /\ state'.driving_hours = state.driving_hours + h
                     /\ state'.window_hours = state.window_hours + h
                     /\ state'.hours_since_break = state.hours_since_break + h
                     /\ state'.cycle_hours = state.cycle_hours + h
                     /\ state'.on_duty
                [] seg.duty_status = "on_duty_not_driving" ->
                     \* add_on_duty(h)
                     /\ state'.window_hours = state.window_hours + h
                     /\ state'.cycle_hours = state.cycle_hours + h
                     /\ SameCounters(state, state',
                                     {"driving_hours", "hours_since_break"})
                     /\ state'.on_duty
                [] seg.segment_type \in {"break", "fuel"}
                       /\ seg.duty_status = "off_duty" ->
                     \* take_break()
                     /\ state'.hours_since_break = 0
                     /\ SameCounters(state, state',
                            {"driving_hours", "window_hours", "cycle_hours",
                             "on_duty"})
                [] seg.segment_type = "rest" ->
                     \* take_rest(), and cycle_hours = 0 with the 34 hours
                     /\ state'.driving_hours = 0
                     /\ state'.window_hours = 0
                     /\ state'.hours_since_break = 0
                     /\ ~state'.on_duty
                     /\ state'.cycle_hours =
                            IF Duration(seg) = Hours(34) THEN 0
                                                         ELSE state.cycle_hours
                [] OTHER -> FALSE

\* C22: each ledger mutation changes exactly the counters listed for it and
\* leaves the rest unchanged: add_driving(h) adds h to all four counters;
\* add_on_duty(h) adds h to window_hours and cycle_hours only; take_break
\* zeros hours_since_break only; take_rest zeros driving_hours, window_hours
\* and hours_since_break, clears on_duty and leaves cycle_hours unchanged;
\* only the 34-hour restart zeros cycle_hours.
C22_LedgerMutations == [][C22_LedgerStep]_vars

\* a returned trip on which every mutation has acted, its 10-hour rest taken
\* with hours on the cycle and its break before the restart
C22_Witness ==
    /\ pc = "done"
    /\ \E i, j, k \in 1..Len(segments) :
          /\ i < j
          /\ segments[i].segment_type = "rest"
          /\ Duration(segments[i]) = Hours(10)
          /\ segments[j].segment_type = "rest"
          /\ Duration(segments[j]) = Hours(34)
          /\ k < j
          /\ segments[k].segment_type = "break"
    /\ \E i \in 1..Len(segments) : segments[i].segment_type = "fuel"
    /\ state.cycle_hours > 0

\* the four margins 11 - driving_hours, 14 - window_hours,
\* 8 - hours_since_break and 70 - cycle_hours
Margins(s) ==
    {Hours(11) - s.driving_hours, Hours(14) - s.window_hours,
     Hours(8) - s.hours_since_break, Hours(70) - s.cycle_hours}

LeastMargin(s) == CHOOSE m \in Margins(s) : \A n \in Margins(s) : m <= n

\* C23: remaining_driving() equals max(0, min(11 - driving_hours,
\* 14 - window_hours, 8 - hours_since_break, 70 - cycle_hours)) and is never
\* negative; it is 0 if and only if at least one of needs_break, needs_rest,
\* needs_cycle_reset is true, also when a counter has overshot its limit.
C23_RemainingDriving ==
    /\ remaining_driving(state) >= 0
    /\ remaining_driving(state) =
          (IF LeastMargin(state) < 0 THEN 0 ELSE LeastMargin(state))
    /\ (remaining_driving(state) = 0) <=>
          (needs_break(state) \/ needs_rest(state) \/ needs_cycle_reset(state))

\* the ledger after a pickup that carried window_hours past 14: no driving
\* remains and a rest is needed
C23_Witness ==
    /\ LastEmittedIs({"pickup"})
    /\ state.window_hours > Hours(14)
    /\ LeastMargin(state) < 0
    /\ remaining_driving(state) = 0
    /\ needs_rest(state) /\ ~needs_break(state) /\ ~needs_cycle_reset(state)

\* the ledger with time left on every counter
C23_WitnessPositive ==
    /\ LastEmittedIs({"drive"})
    /\ remaining_driving(state) > 0
    /\ remaining_driving(state) = Hours(70) - state.cycle_hours
    /\ remaining_driving(state) < Hours(8) - state.hours_since_break

\* some location of the request could not be geocoded
GeocodingFailed ==
    \E i \in 1..Len(geocoded) : geocoded[i] \notin {"found", "coords"}

CalculateTripInvoked == pc # "not_called"

\* C24: in plan_trip any geocoding failure for any of the three locations
\* (no result found, or the geocoding backend erroring or being unreachable)
\* aborts the request and is returned as a user error (HTTP 400), never as a
\* server error, and calculate_trip is not invoked.
C24_GeocodingFailureIsUserError ==
    GeocodingFailed =>
        /\ view_pc = "responded"
        /\ response = 400
        /\ ~CalculateTripInvoked

\* the loop is entered with miles remaining and no driving time left
MustInterrupt == InLoop /\ remaining_driving(state) = 0

\* the one segment the step emits is this interruption
EmitsOnly(type, hours, why) ==
    /\ Len(JustEmitted) = 1
    /\ JustEmitted[1].segment_type = type
    /\ JustEmitted[1].duty_status = "off_duty"
    /\ Duration(JustEmitted[1]) = hours
    /\ JustEmitted[1].reason = why

C25_PriorityStep ==
    MustInterrupt =>
        IF state.cycle_hours >= Hours(70)
          THEN EmitsOnly("rest", Hours(34),
                         "Required 34-hour restart (70hr cycle limit)")
        ELSE IF /\ state.hours_since_break >= Hours(8)
                /\ ~(state.driving_hours >= Hours(11)
                        \/ state.window_hours >= Hours(14))
          THEN EmitsOnly("break", Hours(1) \div 2,
                         "Required 30-minute break (8hr driving limit)")
          ELSE EmitsOnly("rest", Hours(10),
                         "Required 10-hour rest (driving/window limit)")

\* C25: when remaining_driving() is 0 with miles remaining, the driving
\* planner emits exactly one interruption chosen by this priority: if
\* cycle_hours >= 70, a 34-hour rest (even when only a break or a 10-hour
\* rest is otherwise due, and never a 10-hour rest or break in that state);
\* else if hours_since_break >= 8 and neither driving_hours >= 11 nor
\* window_hours >= 14, a 0.5-hour break; otherwise a 10-hour rest with
\* reason "Required 10-hour rest (driving/window limit)".
C25_InterruptionPriority == [][C25_PriorityStep]_vars

\* a 34-hour rest taken where only a break was otherwise due: after the
\* first 8 hours of driving of a trip that began with 62 hours on the cycle
C25_Witness ==
    /\ InLoop
    /\ current_cycle_used = Hours(62)
    /\ Len(Emitted) = 2
    /\ Emitted[1].segment_type = "drive"
    /\ Duration(Emitted[1]) = Hours(8)
    /\ IsRestart(Emitted[2])

\* a 34-hour rest taken where a 10-hour rest was otherwise due: with the
\* 11th hour of driving of a trip that began with 59 hours on the cycle
C25_WitnessRest ==
    /\ InLoop
    /\ current_cycle_used = Hours(59)
    /\ Len(Emitted) = 4
    /\ Emitted[2].segment_type = "break"
    /\ Emitted[3].segment_type = "drive"
    /\ Duration(Emitted[3]) = Hours(3)
    /\ IsRestart(Emitted[4])

\* a 10-hour rest taken with the break due as well: 11 hours driven, the
\* last 8 of them since the break
C25_WitnessBoth ==
    /\ InLoop
    /\ Emitted # <<>>
    /\ Last(Emitted).reason = "Required 10-hour rest (driving/window limit)"
    /\ DriveMilesSinceBreak(Front(Emitted)) = Miles(440)

IsTenHourRest(seg) ==
    seg.segment_type = "rest" /\ Duration(seg) = Hours(10)

\* a 30-minute break or a combined fuel + break in segs after its last rest
BreakSinceLastRest(segs) ==
    \E i \in (LastRestIndex(segs) + 1)..Len(segs) :
        /\ segs[i].segment_type \in {"break", "fuel"}
        /\ segs[i].duty_status = "off_duty"
        /\ 2 * Duration(segs[i]) = Hours(1)

\* a step that emits a 10-hour rest from a ledger with driving_hours >= 11
C26_RestStep ==
    ( /\ Len(JustEmitted) = 1
      /\ IsTenHourRest(JustEmitted[1])
      /\ state.driving_hours >= Hours(11) ) =>
        BreakSinceLastRest(Emitted)

\* the first 10-hour rest of a one-leg trip begun with a fresh ledger
FirstRestOfFreshSingleLeg ==
    /\ Len(route_legs) = 1
    /\ current_cycle_used = 0
    /\ Emitted # <<>>
    /\ IsTenHourRest(Last(Emitted))
    /\ LastRestIndex(Front(Emitted)) = 0

C26_FirstRestAt605Miles ==
    FirstRestOfFreshSingleLeg =>
        /\ SumDriveMiles(Emitted) = Miles(605)
        /\ \E i \in 1..Len(Emitted) :
              /\ Emitted[i].segment_type = "break"
              /\ SumDriveMiles(SubSeq(Emitted, 1, i)) = Miles(440)

\* C26: whenever a 10-hour rest is emitted because driving_hours has
\* reached 11, at least one 30-minute break (or combined fuel+break) segment
\* occurred earlier within the same duty period, i.e. after the previous
\* 10-hour/34-hour rest or trip start; with a fresh ledger and a single long
\* leg the first 10-hour rest comes after 605 miles of driving, with a break
\* at 440 miles.
C26_BreakBeforeDrivingRest ==
    [] C26_FirstRestAt605Miles /\ [][C26_RestStep]_vars

\* the second 10-hour rest of a leg, taken at 11 hours of driving with the
\* break of its own duty period behind it
C26_Witness ==
    /\ InLoop
    /\ Emitted # <<>>
    /\ state.driving_hours = 0
    /\ IsTenHourRest(Last(Emitted))
    /\ LastRestIndex(Front(Emitted)) > 0
    /\ BreakSinceLastRest(Front(Emitted))
    /\ HoursFor(SumDriveMiles(SubSeq(Emitted, LastRestIndex(Front(Emitted)) + 1,
                                     Len(Emitted)))) = Hours(11)

\* the first 10-hour rest of a fresh one-leg trip, in the middle of the leg
C26_WitnessFirst ==
    /\ FirstRestOfFreshSingleLeg
    /\ InLoop
    /\ Len(Emitted) = 4

\* calculate_trip has returned its segment list (and the logs were built)
Completed == pc \in {"done", "logged"}

\* a step of the loop taken with drive_limit <= 0: a break, a 10-hour rest
\* or a 34-hour restart is appended and nothing is driven
InterruptionStep ==
    /\ InLoop
    /\ remaining_driving(state) <= 0
    /\ plan_segments' # plan_segments

\* a step of the loop that appends a drive segment
DriveStep ==
    /\ InLoop
    /\ Len(JustEmitted) >= 1
    /\ JustEmitted[1].segment_type = "drive"

\* the termination argument of the loop: an interruption leaves a ledger
\* that can drive, and a drive step strictly decreases miles_remaining
LoopProgress ==
    /\ InterruptionStep => remaining_driving(state') > 0
    /\ DriveStep => miles_remaining' < miles_remaining

LoopAlwaysProgresses == [][LoopProgress]_vars

\* C27: calculate_trip always runs to completion for every list of legs with
\* distance >= 0 and every current_cycle_used in [0, 70]: a call that has not
\* returned can always take its next step.
C27_RunsToCompletion == Completed \/ ENABLED Next

\* every call that does not raise runs to completion
CompletesUnlessRaised == pc # "crashed" => (Completed \/ ENABLED Next)

\* the call stopped by the IndexError of segments[-1] on the empty list
C27_Crashed ==
    /\ pc = "crashed"
    /\ error = "IndexError"
    /\ segments = <<>>
    /\ ~ ENABLED Next

\* the chain _plan_driving_segment has built for the current leg
LegChain == IF InLeg THEN plan_segments ELSE <<>>

TypeAt(i) == LegChain[i].segment_type

\* the chain's i-th segment has a successor in the chain
Followed(i) == i \in 1..(Len(LegChain) - 1)

\* an on-duty fuel stop, as opposed to the combined fuel + break
IsFuelStop(seg) == seg.segment_type = "fuel" /\ seg.duty_status = ON_DUTY

\* C28 as stated: within a leg chain every break, rest and fuel segment is
\* immediately followed by a drive segment, so no two interruptions are
\* adjacent, and a non-empty chain ends on a drive segment.
C28_InterruptionFollowedByDrive ==
    /\ \A i \in 1..Len(LegChain) :
          (IsInterruption(LegChain[i]) /\ Followed(i)) => TypeAt(i + 1) = "drive"
    /\ (LegChainComplete /\ LegChain # <<>>) =>
          Last(LegChain).segment_type = "drive"

\* C28 (amended): within a leg chain every rest segment is immediately
\* followed by a drive segment; an on-duty fuel stop is immediately followed
\* by a drive, a break or a rest; a break is immediately followed by a drive
\* or a rest; and a chain never ends on a rest or on an on-duty fuel stop.
C28_RestFollowedByDrive ==
    /\ \A i \in 1..Len(LegChain) :
          /\ (TypeAt(i) = "rest" /\ Followed(i)) => TypeAt(i + 1) = "drive"
          /\ (IsFuelStop(LegChain[i]) /\ Followed(i)) =>
                 TypeAt(i + 1) \in {"drive", "break", "rest"}
          /\ (TypeAt(i) = "break" /\ Followed(i)) =>
                 TypeAt(i + 1) \in {"drive", "rest"}
    /\ (LegChainComplete /\ LegChain # <<>>) =>
          /\ Last(LegChain).segment_type # "rest"
          /\ ~IsFuelStop(Last(LegChain))

\* without rounding of the ledger every break is immediately followed by a
\* drive segment as well, and a non-empty chain ends on a drive segment
BreakFollowedByDrive ==
    /\ \A i \in 1..Len(LegChain) :
          (TypeAt(i) = "break" /\ Followed(i)) => TypeAt(i + 1) = "drive"
    /\ (LegChainComplete /\ LegChain # <<>>) =>
          Last(LegChain).segment_type = "drive"

\* a finished chain in which a fuel stop is directly followed by a rest and
\* the rest by a drive segment
C28_Witness ==
    /\ LegChainComplete
    /\ \E i \in 1..(Len(LegChain) - 2) :
          /\ IsFuelStop(LegChain[i])
          /\ TypeAt(i + 1) = "rest"
          /\ TypeAt(i + 2) = "drive"

\* a fuel stop directly followed by a 30-minute break
C28_WitnessFuelThenBreak ==
    \E i \in 1..(Len(LegChain) - 1) :
        IsFuelStop(LegChain[i]) /\ TypeAt(i + 1) = "break"

\* a fuel stop directly followed by a 34-hour restart
C28_WitnessFuelThenRestart ==
    \E i \in 1..(Len(LegChain) - 1) :
        IsFuelStop(LegChain[i]) /\ IsRestart(LegChain[i + 1])
====
